---- MODULE Spec2Model ----
(***************************************************************************)
(* A model of memit_lti/memit_lti_rect_main.py: the update computation of  *)
(* execute_memit_lti (mutate the live weights layer by layer, restore them *)
(* at the end), the process-lifetime caches COV_CACHE and SEQ_CACHE, the   *)
(* covariance provider get_cov, the shape reconciliation                   *)
(* upd_matrix_match_shape and the masked insertion of                      *)
(* apply_memit_lti_rect_to_model.                                          *)
(*                                                                         *)
(* Tensors are matrices of exact rationals (a sequence of rows, an entry   *)
(* <<numerator, denominator>> in lowest terms): the rounding of float32    *)
(* and float64 is not modelled.  The edited network has key dimension 1    *)
(* and output dimension 2, and a batch holds one request, so the           *)
(* covariance and K K^T are 1x1 and the update is 2x1.                     *)
(***************************************************************************)
EXTENDS Integers, Sequences, FiniteSets, TLC

VARIABLES
    pc,            \* position of the control flow
    batch,         \* number of execute_memit_lti calls started so far
    hparams,       \* the hyperparameters of the process
    model,         \* the live parameters of the network: weight name -> matrix
    weights,       \* execute_memit_lti: names of the retrieved live tensors
    weights_copy,  \* execute_memit_lti: weight name -> saved clone
    z_layer,       \* execute_memit_lti: the layer the targets are computed at
    zs,            \* execute_memit_lti: the target matrix
    i,             \* execute_memit_lti: position in hparams.layers
    layer_ks,      \* execute_memit_lti: keys of the current layer
    targets,       \* execute_memit_lti: zs - cur_zs of the current layer
    cov,           \* execute_memit_lti: the per-call covariance tensor
    deltas,        \* execute_memit_lti: weight name -> (adj_k, resid)
    COV_CACHE,     \* module-level covariance cache
    SEQ_CACHE,     \* module-level history of K K^T per layer
    entry_model,   \* history: the live parameters when the call was entered
    khist,         \* history: per layer, the keys of the batches stored so far
    est_calls,     \* history: per cache key, how often layer_stats ran
    cov_stored,    \* history: per cache key, what get_cov stored last
    solved,        \* history: the matrix handed to torch.linalg.solve
    z_count,       \* history: how often the targets were computed in this call
    last,          \* get_cov driver: the last call and what it returned
    sh,            \* upd_matrix_match_shape driver: input and outcome
    sp             \* masked insertion driver: input and outcome

vars == <<pc, batch, hparams, model, weights, weights_copy, z_layer, zs, i,
          layer_ks, targets, cov, deltas, COV_CACHE, SEQ_CACHE, entry_model,
          khist, est_calls, cov_stored, solved, z_count, last, sh, sp>>

\* ------------------------------------------------------------- bounds
MaxBatches == 2
MaxDim == 5
MaxCovCalls == 3
MaxElems == 5
NumPerms == 3

\* ---------------------------------------------------------- rationals
Abs(x) == IF x < 0 THEN -x ELSE x

RECURSIVE GCD(_, _)
GCD(a, b) == IF b = 0 THEN a ELSE GCD(b, a % b)

Norm(n, d) == LET g == GCD(Abs(n), d) IN <<n \div g, d \div g>>
R(n) == <<n, 1>>
RAdd(p, q) == Norm(p[1] * q[2] + q[1] * p[2], p[2] * q[2])
RSub(p, q) == Norm(p[1] * q[2] - q[1] * p[2], p[2] * q[2])
RMul(p, q) == Norm(p[1] * q[1], p[2] * q[2])
RDiv(p, q) == IF q[1] < 0 THEN Norm(-(p[1] * q[2]), p[2] * (-q[1]))
              ELSE Norm(p[1] * q[2], p[2] * q[1])

\* ----------------------------------------------------------- matrices
None == <<>>
Rows(M) == Len(M)
Cols(M) == Len(M[1])
Shape(M) == <<Rows(M), Cols(M)>>
Transpose(M) == [c \in 1..Cols(M) |-> [r \in 1..Rows(M) |-> M[r][c]]]
MatAdd(A, B) == [r \in 1..Rows(A) |-> [c \in 1..Cols(A) |-> RAdd(A[r][c], B[r][c])]]
MatSub(A, B) == [r \in 1..Rows(A) |-> [c \in 1..Cols(A) |-> RSub(A[r][c], B[r][c])]]
MatScale(A, q) == [r \in 1..Rows(A) |-> [c \in 1..Cols(A) |-> RMul(A[r][c], q)]]
MatDiv(A, q) == [r \in 1..Rows(A) |-> [c \in 1..Cols(A) |-> RDiv(A[r][c], q)]]

RECURSIVE Dot(_, _, _, _, _)
Dot(A, B, r, c, k) ==
    IF k = 0 THEN R(0) ELSE RAdd(Dot(A, B, r, c, k - 1), RMul(A[r][k], B[k][c]))
MatMul(A, B) == [r \in 1..Rows(A) |-> [c \in 1..Cols(B) |-> Dot(A, B, r, c, Cols(A))]]

\* torch.linalg.solve(A, B) for the 1x1 systems of this model; a singular A raises.
Singular(A) == A[1][1] = R(0)
Solve(A, B) == [r \in 1..1 |-> [c \in 1..Cols(B) |-> RDiv(B[1][c], A[1][1])]]

\* -------------------------------------------------------- dictionaries
Put(f, k, v) == [x \in (DOMAIN f) \cup {k} |-> IF x = k THEN v ELSE f[x]]
Count(f, k) == IF k \in DOMAIN f THEN f[k] ELSE 0
Range(s) == {s[k] : k \in DOMAIN s}

\* ------------------------------------------------------------ tensors
\* A tensor held by the covariance code: its value, device and dtype, and
\* whether it still is the storage of the COV_CACHE entry it came from.
Tensor(v, dev, dtype) == [val |-> v, dev |-> dev, dtype |-> dtype, shares |-> FALSE]
NoTensor == [val |-> None, dev |-> "none", dtype |-> "none", shares |-> FALSE]
\* Tensor.to(device): the tensor itself when it already is on the device, else a copy.
ToDevice(t, dev) == IF t.dev = dev THEN t ELSE [t EXCEPT !.dev = dev, !.shares = FALSE]
\* Tensor.float() / Tensor.double(): the tensor itself when it has the dtype, else a copy.
ToDtype(t, dtype) == IF t.dtype = dtype THEN t ELSE [t EXCEPT !.dtype = dtype, !.shares = FALSE]

\* COV_CACHE[key] = t: from now on t is the storage of the cache entry
Stored(t) == [t EXCEPT !.shares = TRUE]

\* ------------------------------------------------- the edited network
AllLayers == {0, 1, 2}
\* model.config._name_or_path, as a sequence of characters
ModelPath == <<"m", "/", "a">>
\* hparams.rewrite_module_tmp.format(layer)
Format(layer) == <<"transformer.h", layer, "mlp.c_proj">>
WeightName(layer) == <<"transformer.h", layer, "mlp.c_proj", "weight">>
Const(shape, q) == [r \in 1..shape[1] |-> [c \in 1..shape[2] |-> q]]
\* The weight shapes of two networks: in the second, layer 0 is stored
\* transposed and layer 1 has a shape no update matches.
ShapeConfigs ==
    { (0 :> <<2, 1>> @@ 1 :> <<1, 2>> @@ 2 :> <<2, 1>>),
      (0 :> <<1, 2>> @@ 1 :> <<2, 2>> @@ 2 :> <<2, 1>>) }
Parameters(shapes) ==
    LET names == {WeightName(l) : l \in AllLayers}
        layerOf(n) == n[2]
    IN [n \in names |-> Const(shapes[layerOf(n)], R(layerOf(n) + 1))]

HParamSet ==
    [layers : {<<0>>, <<1, 0>>, <<0, 1, 2>>},
     sequential : BOOLEAN,
     add_prev_edits : BOOLEAN,
     mom2_update_weight : {1, 3}]

\* What the external providers may return.
ZChoices == { <<<<R(3)>>, <<R(6)>>>>, <<<<R(1)>>, <<R(-4)>>>> }   \* compute_z, stacked
CurZChoices == { <<<<R(1)>>, <<R(2)>>>> }    \* get_module_input_output_at_words(...)[1].T
KeyChoices == { <<<<R(0)>>>>, <<<<R(2)>>>> }            \* compute_ks(...).T
ExecEstimates == [mom2 : { <<<<R(0)>>>>, <<<<R(1)>>>> }, preserved_keys : {"pk1"}]

KKt(K) == MatMul(K, Transpose(K))

\* ------------------------------------------------------------ get_cov
\* str.replace("/", "_") on a sequence of characters
ReplaceSlash(name) == [k \in DOMAIN name |-> IF name[k] = "/" THEN "_" ELSE name[k]]
CovKey(name_or_path, layer_name) == <<ReplaceSlash(name_or_path), layer_name>>
FeatureKey(name_or_path, layer_name) ==
    <<ReplaceSlash(name_or_path), layer_name, "preserved_keys">>

CacheMissNoForce(cache, key, force_recompute) == key \notin DOMAIN cache
\* the condition under which get_cov runs layer_stats
CacheMiss(cache, key, force_recompute) == key \notin DOMAIN cache \/ force_recompute

\* get_cov: the cache after the call, what it returns, and whether the
\* external estimator (returning est) was run.
get_cov(cache, name_or_path, layer_name, force_recompute, est) ==
    LET key == CovKey(name_or_path, layer_name)
        feature_key == FeatureKey(name_or_path, layer_name)
        miss == CacheMiss(cache, key, force_recompute)
        after == IF miss
                 THEN Put(Put(cache, key,
                              Stored(ToDevice(ToDtype(Tensor(est.mom2, "cuda", "float64"),
                                                      "float32"), "cpu"))),
                          feature_key, est.preserved_keys)
                 ELSE cache
    IN [cache |-> after,
        cov |-> ToDevice(after[key], "cuda"),
        preserved_keys |-> after[feature_key],
        invoked |-> miss]

\* ---------------------------------------------- upd_matrix_match_shape
MatchShapeNoTranspose(matrix, shape) ==
    IF Shape(matrix) = shape THEN [raises |-> "", value |-> matrix]
    ELSE IF Shape(Transpose(matrix)) = shape THEN [raises |-> "", value |-> matrix]
    ELSE [raises |-> "ValueError", value |-> None]
upd_matrix_match_shape(matrix, shape) ==
    IF Shape(matrix) = shape THEN [raises |-> "", value |-> matrix]
    ELSE IF Shape(Transpose(matrix)) = shape THEN [raises |-> "", value |-> Transpose(matrix)]
    ELSE [raises |-> "ValueError", value |-> None]

\* ---------------------------------------------------- execute_memit_lti
ZLayerFirst(layers) == layers[1]
\* z_layer = hparams.layers[-1]
ZLayer(layers) == layers[Len(layers)]

\* targets.repeat_interleave(factor, dim=1)
RepeatInterleave(M, factor) ==
    [r \in 1..Rows(M) |-> [c \in 1..(Cols(M) * factor) |-> M[r][((c - 1) \div factor) + 1]]]

HistoryAppliesAlways(seq_cache, layer, hp) == layer \in DOMAIN seq_cache /\ hp.sequential
\* whether the cached history is added into the covariance of this call
HistoryApplies(seq_cache, layer, hp) ==
    layer \in DOMAIN seq_cache /\ hp.sequential /\ hp.add_prev_edits

StoreSeqConditional(seq_cache, layer, kk, hp) ==
    IF layer \notin DOMAIN seq_cache THEN Put(seq_cache, layer, kk)
    ELSE IF hp.sequential /\ hp.add_prev_edits
         THEN Put(seq_cache, layer, MatAdd(seq_cache[layer], kk))
         ELSE seq_cache
\* "Store previous sequential": SEQ_CACHE after this batch's K K^T
StoreSeq(seq_cache, layer, kk, hp) ==
    IF layer \notin DOMAIN seq_cache THEN Put(seq_cache, layer, kk)
    ELSE Put(seq_cache, layer, MatAdd(seq_cache[layer], kk))

WriteThroughAlways(cache, key, t) == [cache EXCEPT ![key].val = t.val]
\* the cache after an in-place operation (*=, +=) on tensor t: the entry
\* changes only when t is the entry's own storage
WriteThrough(cache, key, t) ==
    IF t.shares THEN [cache EXCEPT ![key].val = t.val] ELSE cache

ResidNormalised(tg, numLayers, pos) == MatDiv(tg, R(numLayers))
\* resid = targets / (len(hparams.layers) - i)
Resid(tg, numLayers, pos) == MatDiv(tg, R(numLayers - pos))

RestoreNothing(params, names, copy) == params
\* for k, v in weights.items(): v[...] = weights_copy[k]
RestoreWeights(params, names, copy) ==
    [n \in DOMAIN params |-> IF n \in names THEN copy[n] ELSE params[n]]

ExecLocals == <<weights, weights_copy, z_layer, zs, i, layer_ks, targets, cov, deltas>>
Caches == <<COV_CACHE, SEQ_CACHE>>
CovHistory == <<est_calls, cov_stored>>
Drivers == <<last, sh, sp>>

NoSolve == [layer |-> -1, A |-> None]

NoLocals ==
    /\ weights = {}
    /\ weights_copy = <<>>
    /\ z_layer = -1
    /\ zs = None
    /\ i = 0
    /\ layer_ks = None
    /\ targets = None
    /\ cov = NoTensor
    /\ deltas = <<>>
    /\ solved = NoSolve
    /\ z_count = 0

NoDrivers ==
    /\ last = [key |-> <<>>, force |-> FALSE, invoked |-> FALSE, cov |-> None,
               preserved_keys |-> "", est |-> None, est_pk |-> "", calls |-> 0]
    /\ sh = [state |-> "idle", matrix |-> None, shape |-> <<0, 0>>,
             raises |-> "", value |-> None]
    /\ sp = [state |-> "idle", w |-> <<>>, upd |-> <<>>, out |-> <<>>, raises |-> ""]

NoCaches ==
    /\ COV_CACHE = <<>>
    /\ SEQ_CACHE = <<>>
    /\ est_calls = <<>>
    /\ cov_stored = <<>>
    /\ khist = [l \in AllLayers |-> <<>>]

InitExec ==
    /\ pc = "idle"
    /\ batch = 0
    /\ hparams \in HParamSet
    /\ \E shapes \in ShapeConfigs : model = Parameters(shapes)
    /\ entry_model = model
    /\ NoLocals
    /\ NoCaches
    /\ NoDrivers

NumL == Len(hparams.layers)
Layer == hparams.layers[i + 1]

\* lines 118-142: retrieve the weights and save their clones
Call ==
    /\ pc = "idle"
    /\ batch < MaxBatches
    /\ batch' = batch + 1
    /\ weights' = {WeightName(l) : l \in Range(hparams.layers)}
    /\ weights_copy' = [n \in weights' |-> model[n]]
    /\ entry_model' = model
    /\ deltas' = <<>>
    /\ z_count' = 0
    /\ pc' = "compute_z"
    /\ UNCHANGED <<hparams, model, z_layer, zs, i, layer_ks, targets, cov, solved,
                   khist, Caches, CovHistory, Drivers>>

\* lines 144-198: the targets of the batch, computed at the last layer
ComputeZ ==
    /\ pc = "compute_z"
    /\ z_layer' = ZLayer(hparams.layers)
    /\ \E z \in ZChoices : zs' = z
    /\ z_count' = z_count + 1
    /\ i' = 0
    /\ pc' = "read"
    /\ UNCHANGED <<batch, hparams, model, weights, weights_copy, layer_ks, targets,
                   cov, deltas, solved, entry_model, khist, Caches, CovHistory, Drivers>>

\* compute_z raises
ComputeZFails ==
    /\ pc = "compute_z"
    /\ pc' = "raised"
    /\ UNCHANGED <<batch, hparams, model, ExecLocals, solved, z_count, entry_model,
                   khist, Caches, CovHistory, Drivers>>

\* lines 202-226: the keys and the residual error of the current layer
LayerRead ==
    /\ pc = "read"
    /\ i < NumL
    /\ \E k \in KeyChoices, cur_zs \in CurZChoices :
          /\ layer_ks' = k
          /\ targets' = RepeatInterleave(MatSub(zs, cur_zs), Cols(k) \div Cols(zs))
    /\ pc' = "cov"
    /\ UNCHANGED <<batch, hparams, model, weights, weights_copy, z_layer, zs, i, cov,
                   deltas, solved, z_count, entry_model, khist, Caches, CovHistory,
                   Drivers>>

\* compute_ks or get_module_input_output_at_words raises
LayerReadFails ==
    /\ pc = "read"
    /\ i < NumL
    /\ pc' = "raised"
    /\ UNCHANGED <<batch, hparams, model, ExecLocals, solved, z_count, entry_model,
                   khist, Caches, CovHistory, Drivers>>

\* lines 228-269: the covariance of this call and the history cache
LayerCov ==
    /\ pc = "cov"
    /\ \E est \in ExecEstimates :
          LET key == CovKey(ModelPath, Format(Layer))
              got == get_cov(COV_CACHE, ModelPath, Format(Layer), FALSE, est)
              c0 == ToDtype(got.cov, "float64")
              c1 == IF hparams.mom2_update_weight # 1
                    THEN [c0 EXCEPT !.val = MatScale(c0.val, R(hparams.mom2_update_weight))]
                    ELSE c0
              cache1 == IF hparams.mom2_update_weight # 1
                        THEN WriteThrough(got.cache, key, c1) ELSE got.cache
              c2 == IF HistoryApplies(SEQ_CACHE, Layer, hparams)
                    THEN [c1 EXCEPT !.val = MatAdd(c1.val, SEQ_CACHE[Layer])]
                    ELSE c1
              cache2 == IF HistoryApplies(SEQ_CACHE, Layer, hparams)
                        THEN WriteThrough(cache1, key, c2) ELSE cache1
          IN /\ cov' = c2
             /\ COV_CACHE' = cache2
             /\ est_calls' = IF got.invoked
                             THEN Put(est_calls, key, Count(est_calls, key) + 1)
                             ELSE est_calls
             /\ cov_stored' = IF got.invoked
                              THEN Put(cov_stored, key, got.cache[key].val)
                              ELSE cov_stored
    /\ SEQ_CACHE' = StoreSeq(SEQ_CACHE, Layer, KKt(layer_ks), hparams)
    /\ khist' = [khist EXCEPT ![Layer] = Append(@, layer_ks)]
    /\ pc' = "solve"
    /\ UNCHANGED <<batch, hparams, model, weights, weights_copy, z_layer, zs, i,
                   layer_ks, targets, deltas, solved, z_count, entry_model, Drivers>>

\* layer_stats raises inside get_cov
LayerCovFails ==
    /\ pc = "cov"
    /\ CacheMiss(COV_CACHE, CovKey(ModelPath, Format(Layer)), FALSE)
    /\ pc' = "raised"
    /\ UNCHANGED <<batch, hparams, model, ExecLocals, solved, z_count, entry_model,
                   khist, Caches, CovHistory, Drivers>>

\* lines 273-324: solve, distribute the residual, write the live weight
LayerSolve ==
    /\ pc = "solve"
    /\ LET A == MatAdd(cov.val, KKt(layer_ks))
           weight_name == WeightName(Layer)
       IN /\ solved' = [layer |-> Layer, A |-> A]
          /\ \/ /\ Singular(A)                  \* torch.linalg.solve raises
                /\ pc' = "raised"
                /\ UNCHANGED <<model, deltas, i>>
             \/ /\ ~Singular(A)
                /\ LET adj_k == Solve(A, layer_ks)
                       resid == Resid(targets, NumL, i)
                       upd_matrix == MatMul(resid, Transpose(adj_k))
                       fit == upd_matrix_match_shape(upd_matrix, Shape(model[weight_name]))
                   IN \/ /\ fit.raises # ""     \* the ValueError of line 414
                         /\ pc' = "raised"
                         /\ UNCHANGED <<model, deltas, i>>
                      \/ /\ fit.raises = ""
                         /\ model' = [model EXCEPT ![weight_name] =
                                         MatAdd(weights_copy[weight_name], fit.value)]
                         /\ deltas' = Put(deltas, weight_name,
                                          [adj_k |-> adj_k, resid |-> resid])
                         /\ i' = i + 1
                         /\ pc' = "read"
    /\ UNCHANGED <<batch, hparams, weights, weights_copy, z_layer, zs, layer_ks, targets,
                   cov, z_count, entry_model, khist, Caches, CovHistory, Drivers>>

\* lines 334-342: restore the live weights and return the deltas
Restore ==
    /\ pc = "read"
    /\ i = NumL
    /\ model' = RestoreWeights(model, weights, weights_copy)
    /\ pc' = "returned"
    /\ UNCHANGED <<batch, hparams, ExecLocals, solved, z_count, entry_model, khist,
                   Caches, CovHistory, Drivers>>

\* the caller has the deltas; the locals of the call are gone
Return ==
    /\ pc = "returned"
    /\ pc' = "idle"
    /\ weights' = {}
    /\ weights_copy' = <<>>
    /\ z_layer' = -1
    /\ zs' = None
    /\ i' = 0
    /\ layer_ks' = None
    /\ targets' = None
    /\ cov' = NoTensor
    /\ deltas' = <<>>
    /\ solved' = NoSolve
    /\ z_count' = 0
    /\ UNCHANGED <<batch, hparams, model, entry_model, khist, Caches, CovHistory, Drivers>>

NextExec ==
    \/ Call \/ ComputeZ \/ ComputeZFails \/ LayerRead \/ LayerReadFails
    \/ LayerCov \/ LayerCovFails \/ LayerSolve \/ Restore \/ Return

Spec == InitExec /\ [][NextExec]_vars

\* ------------------------------------------------- get_cov on its own
ModelPaths == { <<"m", "/", "a">>, <<"m", "_", "a">>, <<"m", "b">> }
CovLayers == {0, 1}
CovEstimates == [mom2 : { <<<<R(1)>>>>, <<<<R(2)>>>> }, preserved_keys : {"pk1", "pk2"}]

ExecAtRest ==
    /\ pc = "idle"
    /\ batch = 0
    /\ hparams = [layers |-> <<0>>, sequential |-> FALSE, add_prev_edits |-> FALSE,
                  mom2_update_weight |-> 1]
    /\ model = Parameters(0 :> <<2, 1>> @@ 1 :> <<1, 2>> @@ 2 :> <<2, 1>>)
    /\ entry_model = model
    /\ NoLocals

ExecVars == <<pc, batch, hparams, model, ExecLocals, solved, z_count, entry_model>>

InitCov == ExecAtRest /\ NoCaches /\ NoDrivers

\* one call of get_cov (lines 345-380) by some caller
GetCovCall ==
    /\ last.calls < MaxCovCalls
    /\ \E path \in ModelPaths, layer \in CovLayers, force \in BOOLEAN, est \in CovEstimates :
          LET key == CovKey(path, Format(layer))
              got == get_cov(COV_CACHE, path, Format(layer), force, est)
          IN /\ COV_CACHE' = got.cache
             /\ est_calls' = IF got.invoked
                             THEN Put(est_calls, key, Count(est_calls, key) + 1)
                             ELSE est_calls
             /\ cov_stored' = IF got.invoked
                              THEN Put(cov_stored, key, got.cache[key].val)
                              ELSE cov_stored
             /\ last' = [key |-> key, force |-> force, invoked |-> got.invoked,
                         cov |-> got.cov.val, preserved_keys |-> got.preserved_keys,
                         est |-> est.mom2, est_pk |-> est.preserved_keys,
                         calls |-> last.calls + 1]
    /\ UNCHANGED <<ExecVars, SEQ_CACHE, khist, sh, sp>>

NextCov == GetCovCall

SpecCov == InitCov /\ [][NextCov]_vars

\* ------------------------------------ upd_matrix_match_shape on its own
Dims == 1..MaxDim
\* the r x c matrix whose entry (a, b) is 10 a + b
Numbered(r, c) == [a \in 1..r |-> [b \in 1..c |-> R(10 * a + b)]]

InitShape ==
    /\ ExecAtRest /\ NoCaches
    /\ last = [key |-> <<>>, force |-> FALSE, invoked |-> FALSE, cov |-> None,
               preserved_keys |-> "", est |-> None, est_pk |-> "", calls |-> 0]
    /\ sp = [state |-> "idle", w |-> <<>>, upd |-> <<>>, out |-> <<>>, raises |-> ""]
    /\ \E r \in Dims, c \in Dims, tr \in Dims, tc \in Dims :
          sh = [state |-> "idle", matrix |-> Numbered(r, c), shape |-> <<tr, tc>>,
                raises |-> "", value |-> None]

\* one call of upd_matrix_match_shape (lines 403-417)
MatchShapeCall ==
    /\ sh.state = "idle"
    /\ LET got == upd_matrix_match_shape(sh.matrix, sh.shape)
       IN sh' = [sh EXCEPT !.state = "done", !.raises = got.raises, !.value = got.value]
    /\ UNCHANGED <<ExecVars, Caches, CovHistory, khist, last, sp>>

NextShape == MatchShapeCall

SpecShape == InitShape /\ [][NextShape]_vars

\* ------------------------- the masked insertion (lines 62-69) on its own
k_percent == 40
\* 1 / epsilon: epsilon = 1e-8
EpsilonInv == 100000000

\* |upd / (w + epsilon)| of element a is |upd[a]| * EpsilonInv / DeltaDen(w, a)
DeltaDen(w, a) == Abs(w[a] * EpsilonInv + 1)
DeltaLeq(w, upd, a, b) ==
    Abs(upd[a]) * DeltaDen(w, b) <= Abs(upd[b]) * DeltaDen(w, a)
DeltaLess(w, upd, a, b) == ~DeltaLeq(w, upd, b, a)

\* int(delta.numel() * (100 - k_percent) / 100)
KthIndex(numel) == (numel * (100 - k_percent)) \div 100

\* torch.kthvalue(delta.reshape(-1), k): an element holding the k-th smallest value
KthElement(w, upd, k) ==
    CHOOSE t \in DOMAIN w :
        /\ Cardinality({a \in DOMAIN w : DeltaLess(w, upd, a, t)}) < k
        /\ Cardinality({a \in DOMAIN w : DeltaLeq(w, upd, a, t)}) >= k

\* mask = delta >= threshold
Mask(w, upd) ==
    LET t == KthElement(w, upd, KthIndex(Len(w)))
    IN {a \in DOMAIN w : DeltaLeq(w, upd, t, a)}

\* w[mask] += upd_matrix[mask]
MaskedInsert(w, upd) ==
    LET mask == Mask(w, upd)
    IN [a \in DOMAIN w |-> IF a \in mask THEN w[a] + upd[a] ELSE w[a]]

\* the flattened 10x10 update whose element a is (p a) mod 101: 100 distinct
\* nonzero values, in an order that depends on p
Scattered(p) == [a \in 1..100 |-> (p * a) % 101]

InitSparse ==
    /\ ExecAtRest /\ NoCaches
    /\ last = [key |-> <<>>, force |-> FALSE, invoked |-> FALSE, cov |-> None,
               preserved_keys |-> "", est |-> None, est_pk |-> "", calls |-> 0]
    /\ sh = [state |-> "idle", matrix |-> None, shape |-> <<0, 0>>,
             raises |-> "", value |-> None]
    /\ \/ \E n \in 1..MaxElems :
             \E w \in [1..n -> {0, 1}], upd \in [1..n -> {-2, 1, 3}] :
                sp = [state |-> "idle", w |-> w, upd |-> upd, out |-> <<>>, raises |-> ""]
       \/ \E p \in 1..NumPerms :
             sp = [state |-> "idle", w |-> [a \in 1..100 |-> 0], upd |-> Scattered(p),
                   out |-> <<>>, raises |-> ""]

\* the masked insertion of one weight
Insert ==
    /\ sp.state = "idle"
    /\ KthIndex(Len(sp.w)) >= 1
    /\ sp' = [sp EXCEPT !.state = "done", !.out = MaskedInsert(sp.w, sp.upd)]
    /\ UNCHANGED <<ExecVars, Caches, CovHistory, khist, last, sh>>

\* torch.kthvalue raises for k = 0 (a weight of one element)
InsertFails ==
    /\ sp.state = "idle"
    /\ KthIndex(Len(sp.w)) < 1
    /\ sp' = [sp EXCEPT !.state = "done", !.raises = "RuntimeError"]
    /\ UNCHANGED <<ExecVars, Caches, CovHistory, khist, last, sh>>

NextSparse == Insert \/ InsertFails

SpecSparse == InitSparse /\ [][NextSparse]_vars

\* ------------------------------------------------------------- claims
Zero(M) == Const(Shape(M), R(0))
EntryOf(n) == entry_model[n]
\* the update the deltas of weight n stand for, in the orientation of the weight
UpdOf(n) ==
    upd_matrix_match_shape(MatMul(deltas[n].resid, Transpose(deltas[n].adj_k)),
                           Shape(model[n])).value

RECURSIVE SumKKt(_, _)
SumKKt(ks, n) == IF n = 0 THEN <<<<R(0)>>>> ELSE MatAdd(SumKKt(ks, n - 1), KKt(ks[n]))

Weighted(C) == MatScale(C, R(hparams.mom2_update_weight))

\* C1: when execute_memit_lti returns normally, every weight tensor named by
\* hparams.layers (indeed every parameter of the network) holds the value it
\* held on entry, although the layer loop overwrote it with original + update.
C1_Restoration ==
    pc = "returned" => \A n \in DOMAIN model : model[n] = entry_model[n]

C1_Witness ==
    /\ pc = "returned"
    /\ NumL = 3
    /\ \A n \in weights : MatAdd(EntryOf(n), UpdOf(n)) # EntryOf(n)

\* C2: when an exception raised during the layer loop reaches the caller, every
\* weight tensor of the network equals its value before the call.
C2_NoPartialCommit ==
    pc = "raised" => \A n \in DOMAIN model : model[n] = entry_model[n]

\* C3: on the second batch for a layer, with sequential and add_prev_edits the
\* matrix solved against is C + K1 K1^T + K2 K2^T (C the weighted covariance);
\* with add_prev_edits off it is C + K2 K2^T, while the history cache entry of
\* the layer still becomes K1 K1^T + K2 K2^T.
C3_SequentialAccumulation ==
    (solved.layer # -1 /\ Len(khist[solved.layer]) = 2) =>
        LET l == solved.layer
            K1 == khist[l][1]
            K2 == khist[l][2]
            C == Weighted(COV_CACHE[CovKey(ModelPath, Format(l))].val)
        IN /\ (hparams.sequential /\ hparams.add_prev_edits) =>
                 solved.A = MatAdd(MatAdd(C, KKt(K1)), KKt(K2))
           /\ ~hparams.add_prev_edits =>
                 /\ solved.A = MatAdd(C, KKt(K2))
                 /\ SEQ_CACHE[l] = MatAdd(KKt(K1), KKt(K2))

C3_Witness ==
    /\ solved.layer # -1
    /\ Len(khist[solved.layer]) = 2
    /\ hparams.sequential /\ hparams.add_prev_edits
    /\ khist[solved.layer][1] # <<<<R(0)>>>>
    /\ khist[solved.layer][2] # <<<<R(0)>>>>
    /\ pc = "read"

\* C4 as stated: the history entry of a layer is absent until the layer's first
\* batch, which sets it to K K^T; a later batch adds its K K^T only when both
\* sequential and add_prev_edits are on, and leaves the entry untouched otherwise.
C4_ConditionalHistory ==
    \A l \in AllLayers :
        /\ (l \in DOMAIN SEQ_CACHE) <=> (khist[l] # <<>>)
        /\ khist[l] # <<>> =>
              SEQ_CACHE[l] = IF hparams.sequential /\ hparams.add_prev_edits
                             THEN SumKKt(khist[l], Len(khist[l]))
                             ELSE KKt(khist[l][1])

\* C4 amended: the history entry of a layer is absent until the layer's first
\* batch, which sets it to K K^T; every later batch adds its K K^T into the
\* entry whatever sequential and add_prev_edits are.
C4_UnconditionalHistory ==
    \A l \in AllLayers :
        /\ (l \in DOMAIN SEQ_CACHE) <=> (khist[l] # <<>>)
        /\ khist[l] # <<>> => SEQ_CACHE[l] = SumKKt(khist[l], Len(khist[l]))

C4_Witness ==
    \E l \in AllLayers :
        /\ Len(khist[l]) = 2
        /\ ~hparams.sequential
        /\ khist[l][2] # <<<<R(0)>>>>
        /\ SEQ_CACHE[l] # KKt(khist[l][1])

\* C8: the layer at position i (0-indexed) of the L layers receives
\* resid = targets / (L - i): the last layer receives the whole residual, and
\* for L = 3 the fractions are 1/3, 1/2 and 1.
C8_ResidualDistribution ==
    (pc = "read" /\ i > 0) =>
        LET pos == i - 1
            resid == deltas[WeightName(hparams.layers[i])].resid
        IN /\ MatScale(resid, R(NumL - pos)) = targets
           /\ pos = NumL - 1 => resid = targets
           /\ NumL = 3 => resid = MatScale(targets, <<<<1, 3>>, <<1, 2>>, <<1, 1>>>>[i])

C8_Witness ==
    /\ pc = "read"
    /\ NumL = 3
    /\ i = 2
    /\ targets # Zero(targets)
    /\ deltas[WeightName(hparams.layers[2])].resid = MatScale(targets, <<1, 2>>)

\* C9: the targets are computed once, at the last layer of hparams.layers and
\* before any weight is modified; when the keys and the hidden output are read
\* for position i, the weights at positions 0..i-1 hold original + update and
\* those at positions i..L-1 hold their original value.
C9_LayerOrdering ==
    /\ pc = "compute_z" => (z_count = 0 /\ model = entry_model)
    /\ pc \in {"read", "cov", "solve", "returned"} =>
          (z_count = 1 /\ z_layer = hparams.layers[NumL])
    /\ pc = "cov" =>
          \A j \in 1..NumL :
              LET n == WeightName(hparams.layers[j])
              IN IF j <= i
                 THEN n \in DOMAIN deltas /\ model[n] = MatAdd(EntryOf(n), UpdOf(n))
                 ELSE n \notin DOMAIN deltas /\ model[n] = EntryOf(n)

C9_Witness ==
    /\ pc = "cov"
    /\ NumL = 3
    /\ i = 2
    /\ \A j \in 1..2 : model[WeightName(hparams.layers[j])]
                          # EntryOf(WeightName(hparams.layers[j]))

\* C10: editing never changes what get_cov stored in COV_CACHE, and the matrix
\* solved against on the n-th batch of a layer holds the weighting factor once
\* and the K K^T of each earlier batch at most once.
C10_CovCacheUntouched ==
    /\ DOMAIN cov_stored \subseteq DOMAIN COV_CACHE
    /\ \A key \in DOMAIN cov_stored : COV_CACHE[key].val = cov_stored[key]
    /\ solved.layer # -1 =>
          LET l == solved.layer
              n == Len(khist[l])
              C == Weighted(cov_stored[CovKey(ModelPath, Format(l))])
              earlier == IF hparams.sequential /\ hparams.add_prev_edits
                         THEN SumKKt(khist[l], n - 1) ELSE <<<<R(0)>>>>
          IN solved.A = MatAdd(MatAdd(C, earlier), KKt(khist[l][n]))

C10_Witness ==
    /\ solved.layer # -1
    /\ Len(khist[solved.layer]) = 2
    /\ hparams.mom2_update_weight = 3
    /\ hparams.sequential /\ hparams.add_prev_edits
    /\ cov_stored[CovKey(ModelPath, Format(solved.layer))] # <<<<R(0)>>>>
    /\ khist[solved.layer][1] # <<<<R(0)>>>>

\* C5: a get_cov call without force_recompute for a cached key returns the
\* cached covariance and preserved keys and does not run the estimator (for an
\* absent key it runs it once and caches the result, so two such calls run it
\* once); a call with force_recompute always runs the estimator and overwrites
\* the covariance entry and the preserved-keys entry of its key, and leaves the
\* entries of every other key as they were.
C5_CovCache ==
    [][ last'.calls # last.calls =>
          LET key == last'.key
              feature_key == <<key[1], key[2], "preserved_keys">>
              stored == /\ Count(est_calls', key) = Count(est_calls, key) + 1
                        /\ \A k \in DOMAIN est_calls : k # key => est_calls'[k] = est_calls[k]
                        /\ DOMAIN COV_CACHE' = DOMAIN COV_CACHE \cup {key, feature_key}
                        /\ COV_CACHE'[key].val = last'.est
                        /\ COV_CACHE'[feature_key] = last'.est_pk
                        /\ \A k \in DOMAIN COV_CACHE \ {key, feature_key} :
                              COV_CACHE'[k] = COV_CACHE[k]
                        /\ last'.cov = last'.est
                        /\ last'.preserved_keys = last'.est_pk
          IN /\ (~last'.force /\ key \in DOMAIN COV_CACHE) =>
                   /\ est_calls' = est_calls
                   /\ COV_CACHE' = COV_CACHE
                   /\ last'.cov = COV_CACHE[key].val
                   /\ last'.preserved_keys = COV_CACHE[feature_key]
             /\ (~last'.force /\ key \notin DOMAIN COV_CACHE) => stored
             /\ last'.force => stored
      ]_vars

C5_Witness ==
    /\ last.calls >= 2
    /\ ~last.force /\ ~last.invoked
    /\ est_calls[last.key] = 1
    /\ Cardinality(DOMAIN COV_CACHE) > 2

\* C6: the masked insertion modifies the top 40% of the elements: for n
\* elements with pairwise distinct relative magnitudes and nonzero updates,
\* 0.4 n of them (40 of the 100 of a 10x10 weight) when 0.4 n is a whole
\* number, and every element it does not select keeps its value.
C6_SparseThreshold ==
    LET n == Len(sp.w)
        distinct == \A a, b \in 1..n :
                        a # b => ~(DeltaLeq(sp.w, sp.upd, a, b) /\ DeltaLeq(sp.w, sp.upd, b, a))
        nonzero == \A a \in 1..n : sp.upd[a] # 0
        modified == {a \in 1..n : sp.out[a] # sp.w[a]}
    IN (sp.state = "done" /\ sp.raises = "" /\ distinct /\ nonzero) =>
          /\ (k_percent * n) % 100 = 0 => 100 * Cardinality(modified) = k_percent * n
          /\ \A a \in 1..n : a \notin Mask(sp.w, sp.upd) => sp.out[a] = sp.w[a]

\* C7: upd_matrix_match_shape returns the matrix when its shape is the target
\* shape, its transpose when only the transpose has the target shape, and
\* raises ValueError otherwise; what it returns has the target shape.
C7_ShapeContract ==
    sh.state = "done" =>
        LET M == sh.matrix
            S == sh.shape
            same == Rows(M) = S[1] /\ Cols(M) = S[2]
            flipped == Cols(M) = S[1] /\ Rows(M) = S[2]
        IN /\ same => (sh.raises = "" /\ sh.value = M)
           /\ (~same /\ flipped) =>
                 /\ sh.raises = ""
                 /\ Len(sh.value) = Cols(M)
                 /\ \A c \in 1..Cols(M) :
                       /\ Len(sh.value[c]) = Rows(M)
                       /\ \A r \in 1..Rows(M) : sh.value[c][r] = M[r][c]
           /\ (~same /\ ~flipped) => sh.raises = "ValueError"
           /\ sh.raises = "" => Shape(sh.value) = S
           /\ sh.raises \in {"", "ValueError"}

C7_Witness ==
    /\ sh.state = "done"
    /\ Shape(sh.matrix) = <<3, 5>>
    /\ sh.shape = <<5, 3>>
    /\ sh.raises = ""
    /\ sh.value[5][3] = R(35)

====
